---- MODULE Spec2Model ----
(***************************************************************************)
(* Token & account operations library (program/src/separate.rs).           *)
(*                                                                         *)
(* The library is stateless: its state is the ledger it is handed (native  *)
(* balances, data buffers, owners) and the token program's bookkeeping.    *)
(* Every operation is one synchronous call, so each is one action.  The    *)
(* action records the inter-program calls it issued (calls), the value it  *)
(* returned (result), its arguments (last) and the ledger it started from  *)
(* (pre).  The system program, the token program and the rent sysvar are   *)
(* external: a call to them fails whenever the environment says so, and    *)
(* otherwise has its documented effect.                                    *)
(*                                                                         *)
(* Native balances are u64 in the source; the model keeps the width but    *)
(* scales it: MaxLamports stands for u64::MAX.                             *)
(***************************************************************************)
EXTENDS Integers, Sequences, FiniteSets, TLC

VARIABLES lamports, data, owner, token, last, calls, result, pre

vars == <<lamports, data, owner, token, last, calls, result, pre>>

-----------------------------------------------------------------------------
(* Bounds *)

MaxLamports == 3
MaxRent == 2
MaxSpace == 9
MaxAmount == 2
MaxSupply == 3

(* Program constants *)

DiscLen == 8
DiscByte == 255
TokenAccountLen == 165

Accounts == {"A1", "A2"}
OwnerIds == {"Prog", "Token"}
Keys == {"K1", "K2"}
AuthorityType == {"MintTokens", "FreezeAccount", "AccountOwner", "CloseAccount"}
Spaces == {0} \cup ((DiscLen - 1) .. MaxSpace)

CallErrors == {"InsufficientFunds", "Custom"}
LibErrors == {"TokenTransferFailed", "TokenMintFailed", "InitializeTokenAccountFailed",
              "SetAccountAuthorityFailed", "CloseAccountFailed", "AccountDidNotSerialize"}

CLOSED_ACCOUNT_DISCRIMINATOR == [i \in 1 .. DiscLen |-> DiscByte]

Zeros(n) == [i \in 1 .. n |-> 0]

Max(a, b) == IF a >= b THEN a ELSE b

RECURSIVE SumOver(_, _)
SumOver(f, S) ==
    IF S = {} THEN 0
    ELSE LET x == CHOOSE y \in S : TRUE IN f[x] + SumOver(f, S \ {x})

Total(l) == SumOver(l, Accounts)

-----------------------------------------------------------------------------
(* Arithmetic of the source *)

\* u64::max(1) without the floor
RentFloor_NoFloor(m) == m

\* rent.minimum_balance(space).max(1)
RentFloor(m) == Max(m, 1)

\* no subtraction: the whole minimum is transferred
RequiredLamports_Full(minimum, balance) == minimum

\* minimum.saturating_sub(new_pda_account.lamports())
RequiredLamports(minimum, balance) == IF minimum > balance THEN minimum - balance ELSE 0

\* wrapping_add instead of checked_add
CheckedAdd_Wrapping(a, b) == {(a + b) % (MaxLamports + 1)}

\* u64::checked_add: the empty set is None, {v} is Some(v)
CheckedAdd(a, b) == IF a + b > MaxLamports THEN {} ELSE {a + b}

\* the pre-funded path taken for every balance
PreFunded_Always(balance) == balance >= 0

\* new_pda_account.lamports() > 0
PreFunded(balance) == balance > 0

\* an error that is not propagated
Propagate_Never(r) == FALSE

\* the ? operator: an Err returns at once
Propagate(r) == r # "Ok"

\* map_err that lets the cause through
MapErr_Passthrough(r, kind) == r

\* result.map_err(|_| ErrorCode::kind.into())
MapErr(r, kind) == IF r = "Ok" THEN "Ok" ELSE kind

-----------------------------------------------------------------------------
(* Inter-program calls *)

Call(ix, signed, amount, space, ownerId, res) ==
    [ix |-> ix, signed |-> signed, amount |-> amount, space |-> space,
     ownerId |-> ownerId, res |-> res]

\* what the call layer answers to a call the environment lets through
\* only when the payer can afford it
Answer(ix, failAt, err, affordable) ==
    IF failAt = ix THEN err
    ELSE IF ~affordable THEN "InsufficientFunds"
    ELSE "Ok"

Ledger(l, d, o) == [lamports |-> l, data |-> d, owner |-> o]

Outcome(ledger, cs, r) == [ledger |-> ledger, calls |-> cs, result |-> r]

\* system_instruction::transfer
SysTransfer(ledger, from, to, amount) ==
    [ledger EXCEPT !.lamports = [ledger.lamports EXCEPT ![from] = @ - amount,
                                                        ![to] = @ + amount]]

\* system_instruction::allocate
SysAllocate(ledger, acct, space) ==
    [ledger EXCEPT !.data = [ledger.data EXCEPT ![acct] = Zeros(space)]]

\* system_instruction::assign
SysAssign(ledger, acct, ownerId) ==
    [ledger EXCEPT !.owner = [ledger.owner EXCEPT ![acct] = ownerId]]

\* system_instruction::create_account
SysCreateAccount(ledger, from, to, amount, space, ownerId) ==
    SysAssign(SysAllocate(SysTransfer(ledger, from, to, amount), to, space), to, ownerId)

-----------------------------------------------------------------------------
(* create_pda_account *)

CreatePdaFunded(ledger, payer, pda, space, ownerId, minimum, failAt, err) ==
    LET balance == ledger.lamports[pda]
        required_lamports == RequiredLamports(minimum, balance)
        r1 == Answer("transfer", failAt, err,
                     ledger.lamports[payer] >= required_lamports
                       /\ balance + required_lamports <= MaxLamports)
        c1 == IF required_lamports > 0
              THEN <<Call("transfer", FALSE, required_lamports, 0, "-", r1)>>
              ELSE <<>>
        l1 == IF required_lamports > 0 /\ r1 = "Ok"
              THEN SysTransfer(ledger, payer, pda, required_lamports)
              ELSE ledger
        r2 == Answer("allocate", failAt, err, TRUE)
        c2 == c1 \o <<Call("allocate", TRUE, 0, space, "-", r2)>>
        l2 == IF r2 = "Ok" THEN SysAllocate(l1, pda, space) ELSE l1
        r3 == Answer("assign", failAt, err, TRUE)
        c3 == c2 \o <<Call("assign", TRUE, 0, 0, ownerId, r3)>>
        l3 == IF r3 = "Ok" THEN SysAssign(l2, pda, ownerId) ELSE l2
    IN  IF required_lamports > 0 /\ Propagate(r1) THEN Outcome(l1, c1, r1)
        ELSE IF Propagate(r2) THEN Outcome(l2, c2, r2)
        ELSE Outcome(l3, c3, r3)

CreatePdaAtomic(ledger, payer, pda, space, ownerId, minimum, failAt, err) ==
    LET r == Answer("create_account", failAt, err, ledger.lamports[payer] >= minimum)
        c == <<Call("create_account", TRUE, minimum, space, ownerId, r)>>
    IN  IF r = "Ok"
        THEN Outcome(SysCreateAccount(ledger, payer, pda, minimum, space, ownerId), c, r)
        ELSE Outcome(ledger, c, r)

CreatePda(ledger, payer, pda, space, ownerId, rentOk, m, failAt, err) ==
    IF Propagate(IF rentOk THEN "Ok" ELSE "UnsupportedSysvar")
    THEN Outcome(ledger, <<>>, "UnsupportedSysvar")
    ELSE IF PreFunded(ledger.lamports[pda])
         THEN CreatePdaFunded(ledger, payer, pda, space, ownerId, RentFloor(m), failAt, err)
         ELSE CreatePdaAtomic(ledger, payer, pda, space, ownerId, RentFloor(m), failAt, err)

\* the call has not been made yet: a behaviour is one call of the library on
\* the ledger it is handed
Pending == last.op = "-"

\* the environment's choices, without the ones that cannot be told apart
Env(rentOk, failAt, err) ==
    /\ failAt = "none" => err = "Custom"
    /\ ~rentOk => failAt = "none"

Now == Ledger(lamports, data, owner)

Snapshot == [lamports |-> lamports, data |-> data, owner |-> owner, token |-> token]

Args(op, target, other, space, ownerId, m, amount, key, kind, flag) ==
    [op |-> op, target |-> target, other |-> other, space |-> space, ownerId |-> ownerId,
     rentMin |-> m, amount |-> amount, key |-> key, kind |-> kind, flag |-> flag]

Commit(out) ==
    /\ lamports' = out.ledger.lamports
    /\ data' = out.ledger.data
    /\ owner' = out.ledger.owner
    /\ calls' = out.calls
    /\ result' = out.result
    /\ pre' = Snapshot

SysSteps == {"none", "transfer", "allocate", "assign", "create_account"}

create_pda_account ==
    /\ Pending
    /\ \E payer \in Accounts, pda \in Accounts, space \in Spaces, ownerId \in OwnerIds,
          rentOk \in BOOLEAN, m \in 0 .. MaxRent, failAt \in SysSteps, err \in CallErrors :
           /\ Env(rentOk, failAt, err)
           /\ payer # pda
           /\ Commit(CreatePda(Now, payer, pda, space, ownerId, rentOk, m, failAt, err))
           /\ last' = Args("create_pda_account", pda, payer, space, ownerId, m, 0, "-", "-", rentOk)
           /\ UNCHANGED token

-----------------------------------------------------------------------------
(* close *)

\* std::io::Cursor<&mut [u8]>::write_all: copies what fits, fails if not all fits
WriteAll(buf, bytes) ==
    [i \in 1 .. Len(buf) |-> IF i <= Len(bytes) THEN bytes[i] ELSE buf[i]]

WriteAllOk(buf, bytes) == Len(buf) >= Len(bytes)

Close(ledger, info, sol_destination, dataBorrowed) ==
    LET dest_starting_lamports == ledger.lamports[sol_destination]
        sum == CheckedAdd(dest_starting_lamports, ledger.lamports[info])
        v == CHOOSE x \in sum : TRUE
        l1 == [ledger.lamports EXCEPT ![sol_destination] = v]
        l2 == [l1 EXCEPT ![info] = 0]
        swept == [ledger EXCEPT !.lamports = l2]
        buf == ledger.data[info]
        marked == [swept EXCEPT !.data = [ledger.data EXCEPT
                      ![info] = WriteAll(buf, CLOSED_ACCOUNT_DISCRIMINATOR)]]
    IN  IF sum = {} THEN Outcome(ledger, <<>>, "Panic")
        ELSE IF Propagate(IF dataBorrowed THEN "AccountBorrowFailed" ELSE "Ok")
        THEN Outcome(swept, <<>>, "AccountBorrowFailed")
        ELSE Outcome(marked, <<>>,
                     MapErr(IF WriteAllOk(buf, CLOSED_ACCOUNT_DISCRIMINATOR) THEN "Ok" ELSE "WriteZero",
                            "AccountDidNotSerialize"))

close ==
    /\ Pending
    /\ \E info \in Accounts, sol_destination \in Accounts, dataBorrowed \in BOOLEAN :
           /\ Commit(Close(Now, info, sol_destination, dataBorrowed))
           /\ last' = Args("close", info, sol_destination, 0, "-", 0, 0, "-", "-", dataBorrowed)
           /\ UNCHANGED token

-----------------------------------------------------------------------------
(* spl_init_token_account *)

InitSteps == SysSteps \cup {"initialize_account"}

\* spl_token initialize_account: the account record's state byte becomes Initialized
TokInitializeAccount(ledger, acct) ==
    [ledger EXCEPT !.data = [ledger.data EXCEPT ![acct] =
        [i \in 1 .. Len(@) |-> IF i = 109 THEN 1 ELSE @[i]]]]

SplInitTokenAccount(ledger, payer, account, tokenProgram, rentOk, m, failAt, err) ==
    LET cr == CreatePda(ledger, payer, account, TokenAccountLen, tokenProgram,
                        rentOk, m, failAt, err)
        r == Answer("initialize_account", failAt, err, TRUE)
        c == cr.calls \o <<Call("initialize_account", FALSE, 0, 0, "-", r)>>
    IN  IF Propagate(cr.result) THEN cr
        ELSE IF Propagate(IF tokenProgram = "Token" THEN "Ok" ELSE "IncorrectProgramId")
        THEN Outcome(cr.ledger, cr.calls, "IncorrectProgramId")
        ELSE Outcome(IF r = "Ok" THEN TokInitializeAccount(cr.ledger, account) ELSE cr.ledger,
                     c, MapErr(r, "InitializeTokenAccountFailed"))

spl_init_token_account ==
    /\ Pending
    /\ \E payer \in Accounts, account \in Accounts, tokenProgram \in OwnerIds,
          rentOk \in BOOLEAN, m \in 0 .. MaxRent, failAt \in InitSteps, err \in CallErrors :
           /\ Env(rentOk, failAt, err)
           /\ payer # account
           /\ Commit(SplInitTokenAccount(Now, payer, account, tokenProgram, rentOk, m, failAt, err))
           /\ last' = Args("spl_init_token_account", account, payer, TokenAccountLen,
                           tokenProgram, m, 0, "-", "-", rentOk)
           /\ UNCHANGED token

-----------------------------------------------------------------------------
(* Token-program operations *)

TokOutcome(l, d, t, cs, r) == [lamports |-> l, data |-> d, token |-> t, calls |-> cs, result |-> r]

\* the answer of the token program: the environment's failure, an authority
\* mismatch, or a refused precondition
TokenAnswer(envFail, err, authOk, allowed) ==
    IF envFail THEN err
    ELSE IF ~authOk THEN "OwnerMismatch"
    ELSE IF ~allowed THEN "InsufficientFunds"
    ELSE "Ok"

\* one delegated call: the instruction is built (which fails for a foreign
\* token program id), invoked, and its error mapped
Delegate(ix, tokenProgram, amount, r, kind, after) ==
    IF Propagate(IF tokenProgram = "Token" THEN "Ok" ELSE "IncorrectProgramId")
    THEN TokOutcome(lamports, data, token, <<>>, "IncorrectProgramId")
    ELSE LET c == <<Call(ix, TRUE, amount, 0, "-", r)>>
         IN  IF r = "Ok"
             THEN TokOutcome(after.lamports, after.data, after.token, c, MapErr(r, kind))
             ELSE TokOutcome(lamports, data, token, c, MapErr(r, kind))

TokCommit(out) ==
    /\ lamports' = out.lamports
    /\ data' = out.data
    /\ token' = out.token
    /\ calls' = out.calls
    /\ result' = out.result
    /\ pre' = Snapshot
    /\ UNCHANGED owner

spl_token_transfer ==
    /\ Pending
    /\ \E source \in Accounts, destination \in Accounts, amount \in 0 .. MaxAmount,
          authority \in Keys, tokenProgram \in OwnerIds, envFail \in BOOLEAN, err \in CallErrors :
           LET r == TokenAnswer(envFail, err, authority = token.auth["AccountOwner"],
                                token.amount[source] >= amount)
               a1 == [token.amount EXCEPT ![source] = @ - amount]
               a2 == [a1 EXCEPT ![destination] = @ + amount]
               after == [lamports |-> lamports, data |-> data,
                         token |-> [token EXCEPT !.amount = a2]]
           IN  /\ envFail \/ err = "Custom"
               /\ TokCommit(Delegate("transfer", tokenProgram, amount, r, "TokenTransferFailed", after))
               /\ last' = Args("spl_token_transfer", source, destination, 0, tokenProgram, 0,
                               amount, authority, "-", envFail)

spl_token_mint ==
    /\ Pending
    /\ \E mint \in Keys, to \in Accounts, amount \in 0 .. MaxAmount,
          authority \in Keys, tokenProgram \in OwnerIds, envFail \in BOOLEAN, err \in CallErrors :
           LET r == TokenAnswer(envFail, err, authority = token.auth["MintTokens"],
                                token.supply + amount <= MaxSupply)
               after == [lamports |-> lamports, data |-> data,
                         token |-> [token EXCEPT !.amount = [@ EXCEPT ![to] = @ + amount],
                                                 !.supply = @ + amount]]
           IN  /\ envFail \/ err = "Custom"
               /\ TokCommit(Delegate("mint_to", tokenProgram, amount, r, "TokenMintFailed", after))
               /\ last' = Args("spl_token_mint", to, to, 0, tokenProgram, 0,
                               amount, authority, "-", envFail)

spl_set_authority ==
    /\ Pending
    /\ \E account \in Accounts, new_authority \in Keys, authority_type \in AuthorityType,
          authority \in Keys, tokenProgram \in OwnerIds, envFail \in BOOLEAN, err \in CallErrors :
           LET r == TokenAnswer(envFail, err, authority = token.auth[authority_type], TRUE)
               after == [lamports |-> lamports, data |-> data,
                         token |-> [token EXCEPT !.auth = [@ EXCEPT ![authority_type] = new_authority]]]
           IN  /\ envFail \/ err = "Custom"
               /\ TokCommit(Delegate("set_authority", tokenProgram, 0, r,
                                     "SetAccountAuthorityFailed", after))
               /\ last' = Args("spl_set_authority", account, account, 0, tokenProgram, 0,
                               0, authority, authority_type, envFail)

spl_close_account ==
    /\ Pending
    /\ \E account \in Accounts, destination \in Accounts,
          authority \in Keys, tokenProgram \in OwnerIds, envFail \in BOOLEAN, err \in CallErrors :
           LET r == TokenAnswer(envFail, err, authority = token.auth["CloseAccount"],
                                /\ account # destination
                                /\ token.amount[account] = 0
                                /\ lamports[destination] + lamports[account] <= MaxLamports)
               after == [lamports |-> [lamports EXCEPT
                                          ![destination] = @ + lamports[account],
                                          ![account] = 0],
                         data |-> [data EXCEPT ![account] = Zeros(Len(@))],
                         token |-> token]
           IN  /\ envFail \/ err = "Custom"
               /\ TokCommit(Delegate("close_account", tokenProgram, 0, r, "CloseAccountFailed", after))
               /\ last' = Args("spl_close_account", account, destination, 0, tokenProgram, 0,
                               0, authority, "-", envFail)

-----------------------------------------------------------------------------
(* Specifications *)

NoArgs == Args("-", "A1", "A1", 0, "-", 0, 0, "-", "-", FALSE)

FreshToken == [amount |-> [a \in Accounts |-> 0], supply |-> 0,
               auth |-> [t \in AuthorityType |-> "K1"]]

\* a live token account record
TokenRecord == [i \in 1 .. TokenAccountLen |-> IF i = 109 THEN 1 ELSE 0]

\* the ledger handed to an account-lifecycle call: any balances, buffers
\* unallocated or zeroed, accounts still of the system program
Init ==
    /\ lamports \in [Accounts -> 0 .. MaxLamports]
    /\ data \in [Accounts -> {Zeros(n) : n \in Spaces}]
    /\ owner = [a \in Accounts |-> "System"]
    /\ token = FreshToken
    /\ last = NoArgs
    /\ calls = <<>>
    /\ result = "Ok"
    /\ pre = Snapshot

Next == create_pda_account \/ spl_init_token_account \/ close

Spec == Init /\ [][Next]_vars

\* the ledger handed to a token-program call: live token accounts holding any
\* amounts of one mint
TokenInit ==
    /\ lamports \in [Accounts -> 0 .. MaxLamports]
    /\ data = [a \in Accounts |-> TokenRecord]
    /\ owner = [a \in Accounts |-> "Token"]
    /\ \E am \in [Accounts -> 0 .. MaxAmount] :
          token = [FreshToken EXCEPT !.amount = am, !.supply = Total(am)]
    /\ last = NoArgs
    /\ calls = <<>>
    /\ result = "Ok"
    /\ pre = Snapshot

TokenNext == spl_token_transfer \/ spl_token_mint \/ spl_set_authority \/ spl_close_account

TokenSpec == TokenInit /\ [][TokenNext]_vars

-----------------------------------------------------------------------------
(* Properties *)

Target == last.target
Other == last.other

\* the floored minimum, written out independently of RentFloor
Minimum == IF last.rentMin >= 1 THEN last.rentMin ELSE 1

IsCreate == last.op = "create_pda_account"
IsInit == last.op = "spl_init_token_account"
IsClose == last.op = "close"

Ixs == [i \in 1 .. Len(calls) |-> calls[i].ix]

IsPrefix(s, t) == Len(s) <= Len(t) /\ \A i \in 1 .. Len(s) : s[i] = t[i]

BeginsWith(buf, bytes) == IsPrefix(bytes, buf)

\* every issued call but the last one succeeded
CutAtFailure == \A i \in 1 .. Len(calls) : calls[i].res # "Ok" => i = Len(calls)

C2_ZeroBalanceAtomicCreate ==
    (IsCreate /\ last.flag /\ pre.lamports[Target] = 0) =>
        /\ Len(calls) = 1
        /\ calls[1] = Call("create_account", TRUE, Minimum, last.space, last.ownerId,
                           calls[1].res)
        /\ result = calls[1].res
        /\ result = "Ok" =>
              /\ lamports[Target] = Minimum
              /\ Len(data[Target]) = last.space
              /\ owner[Target] = last.ownerId

C2_Witness ==
    /\ IsCreate /\ result = "Ok"
    /\ pre.lamports[Target] = 0
    /\ last.rentMin = MaxRent
    /\ lamports[Target] = MaxRent

C4_InitOnlyAfterCreation ==
    IsInit =>
        LET n == Len(calls)
            creation == {i \in 1 .. n : calls[i].ix # "initialize_account"}
            inits == {i \in 1 .. n : calls[i].ix = "initialize_account"}
            created == /\ last.flag
                       /\ creation # {}
                       /\ \A i \in creation : calls[i].res = "Ok"
                       /\ \E i \in creation : calls[i].ix \in {"assign", "create_account"}
                       /\ Len(pre.data[Target]) = TokenAccountLen
                             \/ Len(data[Target]) = TokenAccountLen
        IN  /\ inits \subseteq {n}
            /\ inits # {} => created /\ n - 1 \in creation
            /\ \A i \in creation :
                  /\ calls[i].ix \in {"allocate", "create_account"} =>
                        calls[i].space = TokenAccountLen
                  /\ calls[i].ix \in {"assign", "create_account"} =>
                        calls[i].ownerId = last.ownerId
                  /\ calls[i].res # "Ok" => inits = {} /\ result = calls[i].res
            /\ ~last.flag => calls = <<>> /\ result = "UnsupportedSysvar"
            /\ result = "InitializeTokenAccountFailed" <=>
                  (inits # {} /\ calls[n].res # "Ok")

C4_Witness ==
    /\ IsInit
    /\ result = "InitializeTokenAccountFailed"
    /\ Len(calls) = 4
    /\ Len(data[Target]) = TokenAccountLen
    /\ owner[Target] = "Token"

\* C5: a successful close leaves the destination holding exactly D + S, the
\* source holding exactly 0 and the source's buffer beginning with the
\* closed-account discriminator.
C5_CloseSweepsAndMarks ==
    (IsClose /\ result = "Ok") =>
        /\ lamports[Other] = pre.lamports[Other] + pre.lamports[Target]
        /\ lamports[Target] = 0
        /\ BeginsWith(data[Target], CLOSED_ACCOUNT_DISCRIMINATOR)

\* C5 for two different accounts
CloseSweepsAndMarksDistinct == Target # Other => C5_CloseSweepsAndMarks

\* C6: when D + S exceeds the largest representable balance, close aborts at
\* the addition: the destination is never set to a wrapped value, nothing of
\* the ledger changes, and no balance falls below what it was.
C6_CloseOverflowIsFatal ==
    (IsClose /\ pre.lamports[Other] + pre.lamports[Target] > MaxLamports) =>
        /\ result = "Panic"
        /\ lamports = pre.lamports
        /\ data = pre.data
        /\ lamports[Other] >= pre.lamports[Other]

C6_Witness ==
    /\ IsClose /\ result = "Panic"
    /\ Target # Other
    /\ pre.lamports[Other] = MaxLamports
    /\ pre.lamports[Target] = 1
    /\ lamports[Other] = MaxLamports

MappedKind ==
    [op \in {"spl_token_transfer", "spl_token_mint", "spl_set_authority", "spl_close_account"} |->
        CASE op = "spl_token_transfer" -> "TokenTransferFailed"
          [] op = "spl_token_mint" -> "TokenMintFailed"
          [] op = "spl_set_authority" -> "SetAccountAuthorityFailed"
          [] op = "spl_close_account" -> "CloseAccountFailed"]

\* C7: when the single token-program call of spl_token_transfer,
\* spl_token_mint, spl_set_authority or spl_close_account fails, for any cause,
\* the operation returns exactly its own mapped error kind and no balance,
\* data, owner or token record has changed.
C7_TokenFailureMappedAndHarmless ==
    (last.op \in DOMAIN MappedKind /\ calls # <<>> /\ calls[1].res # "Ok") =>
        /\ Len(calls) = 1
        /\ result = MappedKind[last.op]
        /\ Snapshot = pre

C7_Witness ==
    /\ last.op = "spl_close_account"
    /\ calls # <<>> /\ calls[1].res = "OwnerMismatch"
    /\ result = "CloseAccountFailed"
    /\ lamports[Target] > 0

\* C8: in create_pda_account the failure of any step aborts the operation at
\* that step: no later call is issued, no call is issued twice, and the error
\* returned is the failing step's own error, never one of the library's kinds.
C8_CreateAbortsAtFailure ==
    IsCreate =>
        /\ CutAtFailure
        /\ \A i, j \in 1 .. Len(calls) : calls[i].ix = calls[j].ix => i = j
        /\ calls # <<>> => result = calls[Len(calls)].res
        /\ ~last.flag => calls = <<>> /\ result = "UnsupportedSysvar"
        /\ last.flag => calls # <<>>
        /\ result \notin LibErrors

C8_Witness ==
    /\ IsCreate
    /\ Ixs = <<"transfer", "allocate">>
    /\ calls[1].res = "Ok"
    /\ result = "Custom"
    /\ data = pre.data /\ owner = pre.owner
    /\ lamports[Target] > pre.lamports[Target]

\* C9: when writing the discriminator fails, close returns
\* AccountDidNotSerialize while the destination already holds D + S and the
\* source already holds 0.
C9_CloseSweepNotUndone ==
    (IsClose /\ result = "AccountDidNotSerialize") =>
        /\ ~WriteAllOk(pre.data[Target], CLOSED_ACCOUNT_DISCRIMINATOR)
        /\ lamports[Other] = pre.lamports[Other] + pre.lamports[Target]
        /\ lamports[Target] = 0

\* C9 for two different accounts
CloseSweepNotUndoneDistinct == Target # Other => C9_CloseSweepNotUndone

\* C10: close conserves native balance: the sum of all balances after close
\* returns equals the sum before, also when info and sol_destination are the
\* same account.
C10_CloseConservesLamports ==
    (IsClose /\ result # "Panic") => Total(lamports) = Total(pre.lamports)

\* C10 for two different accounts
CloseConservesLamportsDistinct == Target # Other => C10_CloseConservesLamports

\* close on one account passed twice: its whole balance is destroyed
CloseAliasedDestroysBalance ==
    (IsClose /\ result # "Panic" /\ Target = Other) => lamports[Target] = 0

====
